---- MODULE Spec2Model ----
(***************************************************************************)
(* unicode-reverse: reverse_grapheme_clusters_in_place (src/src/lib.rs).   *)
(*                                                                         *)
(* The buffer is a sequence of bytes (0..255).  One call is modelled step  *)
(* by step: each iteration of the Part 1 loop, the loop exit, and Part 2   *)
(* with its debug_assert.  The segmenter called at lib.rs:104 belongs to   *)
(* the unicode_segmentation crate; it is modelled by the extended grapheme *)
(* cluster rules of UAX #29 (GB3-GB9b, GB11-GB13, GB999; not GB9c) over    *)
(* the code points decoded from the bytes of the tail it is started on.    *)
(* Inputs are all strings of up to MaxChars code points over Alphabet, the *)
(* strings of the tests, and those strings cut inside their last           *)
(* character (buffers that are not valid UTF-8).                           *)
(***************************************************************************)
EXTENDS Integers, Sequences, FiniteSets, Bags

\* Longest enumerated input, in code points.
MaxChars == 3
\* Number of successive calls on the same buffer.
MaxCalls == 2

(***************************************************************************)
(* UTF-8                                                                   *)
(***************************************************************************)

\* char::encode_utf8, as performed by the "...".to_string() of the tests.
EncodeUtf8(cp) ==
  IF cp < 128 THEN <<cp>>
  ELSE IF cp < 2048 THEN <<192 + (cp \div 64), 128 + (cp % 64)>>
  ELSE IF cp < 65536 THEN
    <<224 + (cp \div 4096), 128 + ((cp \div 64) % 64), 128 + (cp % 64)>>
  ELSE <<240 + (cp \div 262144), 128 + ((cp \div 4096) % 64),
         128 + ((cp \div 64) % 64), 128 + (cp % 64)>>

RECURSIVE StrBytes(_)
\* The bytes of a string literal given as its code points.
StrBytes(cps) ==
  IF cps = <<>> THEN <<>> ELSE EncodeUtf8(Head(cps)) \o StrBytes(Tail(cps))

\* The element of a set of one element: Only({e(x) : x \in {v}}) is e(v), with
\* v computed once.
Only(S) == CHOOSE x \in S : TRUE

\* Number of bytes the decoder consumes for a character led by byte x.
Utf8CharWidth(x) ==
  IF x < 128 THEN 1 ELSE IF x < 224 THEN 2 ELSE IF x < 240 THEN 3 ELSE 4

\* A byte of memory: inside the buffer its content, outside it foreign memory.
MemAt(b, k) == IF k >= 1 /\ k <= Len(b) THEN b[k] ELSE 0

\* The character starting at byte i (1-based) of b, as the str iterator
\* decodes it: cp the code point, w the bytes consumed, short whether a
\* continuation byte had to be fetched past the end of b.
DecodeAt(b, i) ==
  LET x == b[i]
      w == Utf8CharWidth(x)
      y == MemAt(b, i + 1) % 64
      z == MemAt(b, i + 2) % 64
      v == MemAt(b, i + 3) % 64
  IN [cp |-> IF w = 1 THEN x
             ELSE IF w = 2 THEN (x % 32) * 64 + y
             ELSE IF w = 3 THEN (x % 32) * 4096 + y * 64 + z
             ELSE (x % 8) * 262144 + y * 4096 + z * 64 + v,
      w |-> w,
      short |-> i + w - 1 > Len(b)]

\* Grapheme_Cluster_Break property of a code point (Extended_Pictographic
\* for U+1F300..U+1F3FA), for the ranges the inputs draw from.
GraphemeCat(cp) ==
  IF cp = 13 THEN "CR"
  ELSE IF cp = 10 THEN "LF"
  ELSE IF cp < 32 \/ (cp >= 127 /\ cp <= 159) THEN "Control"
  ELSE IF cp >= 768 /\ cp <= 879 THEN "Extend"
  ELSE IF cp >= 1536 /\ cp <= 1541 THEN "Prepend"
  ELSE IF cp = 2307 THEN "SpacingMark"
  ELSE IF cp >= 4352 /\ cp <= 4447 THEN "L"
  ELSE IF cp >= 4448 /\ cp <= 4519 THEN "V"
  ELSE IF cp >= 4520 /\ cp <= 4607 THEN "T"
  ELSE IF cp = 8205 THEN "ZWJ"
  ELSE IF cp >= 44032 /\ cp <= 55203 THEN
    (IF (cp - 44032) % 28 = 0 THEN "LV" ELSE "LVT")
  ELSE IF cp >= 127462 /\ cp <= 127487 THEN "RI"
  ELSE IF cp >= 127744 /\ cp <= 127994 THEN "ExtPict"
  ELSE "Any"

\* b.chars() with the offsets of char_indices, and the category the
\* segmenter looks up for each character: <<[cp, w, short, at, cat]>>, at
\* the 0-based byte offset of the character; from[i] is the characters from
\* byte i on.
Chars(b) ==
  LET from[i \in 1..(Len(b) + 4)] ==
        IF i > Len(b) THEN <<>>
        ELSE Only({ <<[cp |-> c.cp, w |-> c.w, short |-> c.short, at |-> i - 1,
                       cat |-> GraphemeCat(c.cp)]>>
                    \o from[i + c.w]
                    : c \in {DecodeAt(b, i)} })
  IN from[1]

\* str::is_char_boundary
IsCharBoundary(b, idx) ==
  \/ idx = 0
  \/ idx = Len(b)
  \/ idx < Len(b) /\ (b[idx + 1] < 128 \/ b[idx + 1] >= 192)

IsCont(b, k) == k <= Len(b) /\ b[k] >= 128 /\ b[k] <= 191

\* str::from_utf8(b).is_ok(); ok[i] is the validity of b from byte i on.
FromUtf8IsOk(b) ==
  LET ok[i \in 1..(Len(b) + 4)] ==
        IF i > Len(b) THEN TRUE
        ELSE
          LET x == b[i]
              n == MemAt(b, i + 1)
          IN IF x < 128 THEN ok[i + 1]
             ELSE IF x >= 194 /\ x <= 223 THEN IsCont(b, i + 1) /\ ok[i + 2]
             ELSE IF x >= 224 /\ x <= 239 THEN
               /\ \/ x = 224 /\ n >= 160 /\ n <= 191
                  \/ x >= 225 /\ x <= 236 /\ n >= 128 /\ n <= 191
                  \/ x = 237 /\ n >= 128 /\ n <= 159
                  \/ x >= 238 /\ n >= 128 /\ n <= 191
               /\ IsCont(b, i + 2)
               /\ ok[i + 3]
             ELSE IF x >= 240 /\ x <= 244 THEN
               /\ \/ x = 240 /\ n >= 144 /\ n <= 191
                  \/ x >= 241 /\ x <= 243 /\ n >= 128 /\ n <= 191
                  \/ x = 244 /\ n >= 128 /\ n <= 143
               /\ IsCont(b, i + 2)
               /\ IsCont(b, i + 3)
               /\ ok[i + 4]
             ELSE FALSE
  IN ok[1]

(***************************************************************************)
(* Grapheme cluster segmentation (UAX #29, extended clusters)              *)
(***************************************************************************)

Cats(chars) == [k \in 1..Len(chars) |-> chars[k].cat]

RECURSIVE RIRun(_, _)
\* Number of consecutive Regional_Indicator characters ending at position i.
RIRun(cs, i) ==
  IF i < 1 \/ cs[i] # "RI" THEN 0 ELSE 1 + RIRun(cs, i - 1)

\* cs[1..i] ends with ExtPict Extend* ZWJ.
EmojiZwjBefore(cs, i) ==
  /\ cs[i] = "ZWJ"
  /\ \E j \in 1..(i - 1) :
       /\ cs[j] = "ExtPict"
       /\ \A k \in (j + 1)..(i - 1) : cs[k] = "Extend"

\* Whether there is a cluster boundary between cs[i] and cs[i+1], where cs
\* holds the categories of the text the segmenter was started on.  With
\* extended = FALSE (graphemes(false)) GB9a and GB9b are left out.
IsBreak(cs, i, extended) ==
  LET a == cs[i]
      b == cs[i + 1]
  IN IF a = "CR" /\ b = "LF" THEN FALSE                              \* GB3
     ELSE IF a \in {"Control", "CR", "LF"} THEN TRUE                 \* GB4
     ELSE IF b \in {"Control", "CR", "LF"} THEN TRUE                 \* GB5
     ELSE IF a = "L" /\ b \in {"L", "V", "LV", "LVT"} THEN FALSE     \* GB6
     ELSE IF a \in {"LV", "V"} /\ b \in {"V", "T"} THEN FALSE        \* GB7
     ELSE IF a \in {"LVT", "T"} /\ b = "T" THEN FALSE                \* GB8
     ELSE IF b \in {"Extend", "ZWJ"} THEN FALSE                      \* GB9
     ELSE IF extended /\ b = "SpacingMark" THEN FALSE                \* GB9a
     ELSE IF extended /\ a = "Prepend" THEN FALSE                    \* GB9b
     ELSE IF b = "ExtPict" /\ EmojiZwjBefore(cs, i) THEN FALSE       \* GB11
     ELSE IF a = "RI" /\ b = "RI" /\ RIRun(cs, i) % 2 = 1 THEN FALSE \* GB12/13
     ELSE TRUE                                                       \* GB999

\* tail.graphemes(mode).next(), the first cluster of a segmenter started
\* afresh on tail.  some: Some(grapheme) rather than None; len: grapheme.len()
\* in bytes; look: the number of bytes of tail the segmenter examined (the
\* cluster and the character after it); short: decoding them needed a byte
\* past the end of tail.
FirstGrapheme(tail, extended) ==
  IF tail = <<>> THEN [some |-> FALSE, len |-> 0, look |-> 0, short |-> FALSE]
  ELSE Only({
    LET cs == Cats(chars)
        n == CHOOSE i \in 1..Len(chars) :
               /\ i = Len(chars) \/ IsBreak(cs, i, extended)
               /\ \A j \in 1..(i - 1) : ~IsBreak(cs, j, extended)
        m == IF n < Len(chars) THEN n + 1 ELSE n
    IN [some |-> TRUE,
        len |-> chars[n].at + chars[n].w,
        look |-> chars[m].at + chars[m].w,
        short |-> \E k \in 1..m : chars[k].short]
    : chars \in {Chars(tail)} })

\* graphemes(false) where graphemes(true) was meant.
NextGraphemeLegacy(tail) == FirstGrapheme(tail, FALSE)

\* lib.rs:104  tail.graphemes(true).next()
NextGrapheme(tail) == FirstGrapheme(tail, TRUE)

RECURSIVE SortedSeq(_)
SortedSeq(S) ==
  IF S = {} THEN <<>>
  ELSE LET m == CHOOSE x \in S : \A y \in S : x <= y
       IN <<m>> \o SortedSeq(S \ {m})

\* s.graphemes(true): one left-to-right segmentation of the whole of s, as
\* the sequence of clusters [at, len] (byte offset and byte length).
Graphemes(s) ==
  Only({
    LET cs == Cats(chars)
        n == Len(chars)
        ends == SortedSeq({chars[i].at + chars[i].w :
                  i \in {k \in 1..n : k = n \/ IsBreak(cs, k, TRUE)}})
    IN [k \in 1..Len(ends) |->
          [at |-> IF k = 1 THEN 0 ELSE ends[k - 1],
           len |-> ends[k] - (IF k = 1 THEN 0 ELSE ends[k - 1])]]
    : chars \in {Chars(s)} })

\* The bytes of cluster g of s.
Slice(s, g) == SubSeq(s, g.at + 1, g.at + g.len)

\* The clusters of s by content.
Clusters(s) == LET gs == Graphemes(s) IN [k \in 1..Len(gs) |-> Slice(s, gs[k])]

Rev(q) == [k \in 1..Len(q) |-> q[Len(q) + 1 - k]]

(***************************************************************************)
(* reverse_grapheme_clusters_in_place                                      *)
(***************************************************************************)

VARIABLES
  bytes,    \* the buffer s
  pos,      \* byte offset at which tail starts (tail == s[pos..])
  pc,       \* "part1", "part2", "done", "panicked", "ub"
  entry,    \* the buffer as it was when the current call began
  first,    \* the buffer as it was when the first call began
  calls,    \* number of calls that returned
  lens,     \* the len of every Part 1 iteration of the current call
  touched,  \* 0-based buffer indices read or written by the latest step
  split     \* the latest split_at_mut: mid, and the length of tail it split

vars == <<bytes, pos, pc, entry, first, calls, lens, touched, split>>

\* Code points the enumerated inputs are made of: LF, CR, 'a', U+0303
\* COMBINING TILDE, U+0600 (Prepend), U+0903 (SpacingMark), U+200D ZWJ,
\* U+1F1E6 and U+1F1E7 (regional indicators), U+1F36D LOLLIPOP.
Alphabet == {10, 13, 97, 771, 1536, 2307, 8205, 127462, 127463, 127853}

\* The strings of tests::test_empty, test_ascii, test_utf8, test_emoji and
\* test_combining_mark, then longer joiner, flag and Hangul sequences.
TestInputs ==
  { <<>>,
    <<72, 101, 108, 108, 111>>,
    <<161, 72, 111, 108, 97, 33>>,
    <<127853, 127854>>,
    <<109, 97, 110, 771, 97, 110, 97>>,
    <<127853, 771, 8205, 127854, 97>>,
    <<97, 127462, 127463, 127462, 127463, 127462>>,
    <<4352, 4449, 4520, 44032, 4520>> }

ValidInputs ==
  {StrBytes(cps) : cps \in UNION {[1..n -> Alphabet] : n \in 0..MaxChars}}
    \cup {StrBytes(cps) : cps \in TestInputs}

\* Buffers that are not valid UTF-8: a valid string cut inside its last
\* character (a str built without validation, e.g. from_utf8_unchecked).
TruncatedInputs ==
  UNION { LET cs == Chars(b)
          IN {SubSeq(b, 1, Len(b) - k) : k \in 1..(cs[Len(cs)].w - 1)}
          : b \in ValidInputs \ {<<>>} }

Inputs == ValidInputs \cup TruncatedInputs

Init ==
  /\ bytes \in Inputs
  /\ entry = bytes
  /\ first = bytes
  /\ pos = 0
  /\ pc = "part1"
  /\ calls = 0
  /\ lens = <<>>
  /\ touched = {}
  /\ split = [mid |-> 0, of |-> 0]

\* lib.rs:101,109  tail is the part of s from pos on.
TailOf(b, p) == SubSeq(b, p + 1, Len(b))

\* The loop body runs whatever the segmenter returned.
GraphemeIsNoneNever(g) == FALSE

\* lib.rs:106  None => break
GraphemeIsNone(g) == ~g.some

\* The tail is advanced by one byte instead of by the cluster.
NewTailPosByOne(p, mid) == p + 1

\* The tail is not advanced.
NewTailPosStuck(p, mid) == p

\* lib.rs:108-109  tail = new_tail, the part after the first mid bytes.
NewTailPos(p, mid) == p + mid

\* The length of the Part 2 slice used for the Part 1 slice.
HeadRawLenWhole(headLen, sLen) == sLen

\* One byte too many.
HeadRawLenPlusOne(headLen, sLen) == headLen + 1

\* lib.rs:115  the raw slice over head: head.len() bytes from head.as_ptr().
HeadRawLen(headLen, sLen) == headLen

\* One byte too few.
WholeRawLenShort(sLen) == sLen - 1

\* lib.rs:126  the raw slice over s: s.len() bytes from s.as_ptr().
WholeRawLen(sLen) == sLen

\* <[u8]>::reverse on the raw slice of n bytes at offset lo of the memory
\* holding buffer b: byte lo+i is exchanged with byte lo+n-1-i.
ReverseRaw(b, lo, n) ==
  [i \in 1..Len(b) |->
     IF i > lo /\ i <= lo + n THEN MemAt(b, 2 * lo + n + 1 - i) ELSE b[i]]

\* The 0-based indices that reversal exchanges.
ReverseTouched(lo, n) ==
  UNION {{lo + i, lo + n - 1 - i} : i \in 0..((n \div 2) - 1)}

\* lib.rs:102-118  one iteration of the Part 1 loop on a tail whose first
\* cluster decodes within the buffer.
Part1Step ==
  /\ pc = "part1"
  /\ \E g \in {NextGrapheme(TailOf(bytes, pos))} :
       /\ ~GraphemeIsNone(g)
       /\ ~g.short
       /\ \E n \in {HeadRawLen(g.len, Len(bytes))} :
            LET tail == TailOf(bytes, pos)
                len == g.len
                reads == {pos + i : i \in 0..(g.look - 1)}
            IN /\ split' = [mid |-> len, of |-> Len(tail)]
               /\ lens' = Append(lens, len)
               /\ IF len > Len(tail) \/ ~IsCharBoundary(tail, len)
                  THEN \* split_at_mut panics
                       /\ pc' = "panicked"
                       /\ touched' = reads
                       /\ UNCHANGED <<bytes, pos>>
                  ELSE /\ bytes' = ReverseRaw(bytes, pos, n)
                       /\ pos' = NewTailPos(pos, len)
                       /\ touched' = reads \cup ReverseTouched(pos, n)
                       /\ pc' = "part1"
  /\ UNCHANGED <<entry, first, calls>>

\* lib.rs:104  the segmenter on a tail that ends inside a character.  The
\* str iterator fetches the continuation bytes without a bounds check
\* (the str is assumed valid): depending on the build the fetch reads past
\* the buffer, or the missing byte is noticed and the call panics.
Part1Malformed ==
  /\ pc = "part1"
  /\ \E g \in {NextGrapheme(TailOf(bytes, pos))} :
       /\ ~GraphemeIsNone(g)
       /\ g.short
       /\ LET reads == {pos + i : i \in 0..(g.look - 1)}
          IN \E outcome \in {"ub", "panicked"} :
               /\ pc' = outcome
               /\ touched' = IF outcome = "ub" THEN reads
                             ELSE reads \cap 0..(Len(bytes) - 1)
  /\ UNCHANGED <<bytes, pos, entry, first, calls, lens, split>>

\* lib.rs:104-107  the segmenter yields None on the empty tail: break.
Part1Exit ==
  /\ pc = "part1"
  /\ \E g \in {NextGrapheme(TailOf(bytes, pos))} : GraphemeIsNone(g)
  /\ pc' = "part2"
  /\ touched' = {}
  /\ UNCHANGED <<bytes, pos, entry, first, calls, lens, split>>

\* lib.rs:121-131  Part 2: reverse all the bytes, then the debug_assert,
\* which only a build with debug assertions evaluates.
Part2 ==
  /\ pc = "part2"
  /\ LET n == WholeRawLen(Len(bytes))
     IN /\ bytes' = ReverseRaw(bytes, 0, n)
        /\ touched' = ReverseTouched(0, n)
  /\ \E debug \in BOOLEAN :
       pc' = IF debug /\ ~FromUtf8IsOk(bytes') THEN "panicked" ELSE "done"
  /\ calls' = calls + 1
  /\ UNCHANGED <<pos, entry, first, lens, split>>

\* lib.rs:141-145  the caller calls the function (again) on the buffer.
Call ==
  /\ pc = "done"
  /\ calls < MaxCalls
  /\ entry' = bytes
  /\ pos' = 0
  /\ lens' = <<>>
  /\ touched' = {}
  /\ split' = [mid |-> 0, of |-> 0]
  /\ pc' = "part1"
  /\ UNCHANGED <<bytes, first, calls>>

Next == Part1Step \/ Part1Malformed \/ Part1Exit \/ Part2 \/ Call

Spec == Init /\ [][Next]_vars

\* The function runs on the calling thread with nothing to wait for: a
\* step that can be taken is taken.
FairSpec == Spec /\ WF_vars(Part1Step) /\ WF_vars(Part1Exit) /\ WF_vars(Part2)

(***************************************************************************)
(* Properties                                                              *)
(***************************************************************************)

RECURSIVE Concat(_)
Concat(q) == IF q = <<>> THEN <<>> ELSE Head(q) \o Concat(Tail(q))

RECURSIVE Sum(_)
Sum(q) == IF q = <<>> THEN 0 ELSE Head(q) + Sum(Tail(q))

BagOf(q) == [x \in {q[k] : k \in 1..Len(q)} |->
               Cardinality({k \in 1..Len(q) : q[k] = x})]

\* The cluster lengths of one segmentation of s.
Lengths(s) == LET gs == Graphemes(s) IN [k \in 1..Len(gs) |-> gs[k].len]

\* The call was made on valid UTF-8.
EntryValid == FromUtf8IsOk(entry)

Manana == StrBytes(<<109, 97, 110, 771, 97, 110, 97>>)
Flags == StrBytes(<<97, 127462, 127463, 127462, 127463, 127462>>)
TildeFirst == StrBytes(<<771, 97>>)

\* C1: after a call on a valid buffer of length L with clusters C1..Cn the
\* buffer has length L and is Cn ++ ... ++ C1; byte j of the cluster at
\* offset s of length l is at index L - s - l + j.
C1_ReversedClusters ==
  (pc = "done" /\ EntryValid) =>
    LET gs == Graphemes(entry)
        L == Len(entry)
    IN /\ Len(bytes) = L
       /\ bytes = Concat(Rev(Clusters(entry)))
       /\ \A k \in 1..Len(gs) : \A j \in 0..(gs[k].len - 1) :
            bytes[(L - gs[k].at - gs[k].len + j) + 1] = entry[gs[k].at + j + 1]

\* test_combining_mark has returned: "man\u{0303}ana" became "anan\u{0303}am".
C1_Witness ==
  /\ pc = "done"
  /\ entry = Manana
  /\ bytes = StrBytes(<<97, 110, 97, 110, 771, 97, 109>>)

C3_ValidityPreserved ==
  EntryValid =>
    /\ pc # "panicked"
    /\ pc = "done" => FromUtf8IsOk(bytes)
    /\ pc = "part1" => IsCharBoundary(entry, pos)
    /\ \A k \in 1..Len(lens) : IsCharBoundary(entry, Sum(SubSeq(lens, 1, k)))

\* A call on two clusters of several bytes each has returned.
C3_Witness ==
  /\ pc = "done"
  /\ entry = StrBytes(<<127853, 97, 771>>)
  /\ bytes = StrBytes(<<97, 771, 127853>>)
  /\ FromUtf8IsOk(bytes)

\* The clusters of the input, mirrored: where each lies in the output.
Mirrored(s) ==
  LET gs == Graphemes(s)
      n == Len(gs)
  IN [k \in 1..n |-> [at |-> Len(s) - gs[n + 1 - k].at - gs[n + 1 - k].len,
                      len |-> gs[n + 1 - k].len]]

\* The output cut where the clusters of the input now lie.
CutMirrored == LET ms == Mirrored(entry)
               IN [k \in 1..Len(ms) |-> Slice(bytes, ms[k])]

\* C4 as stated: segmenting the output of a call on any valid buffer gives
\* the clusters of the input in reverse order, hence the same multiset.
C4_ResegmentedAlways ==
  (pc = "done" /\ EntryValid) =>
    /\ Clusters(bytes) = Rev(Clusters(entry))
    /\ BagOf(Clusters(bytes)) = BagOf(Clusters(entry))

\* C4 amended: the output, cut where the clusters of the input now lie, is
\* the clusters of the input in reverse order, hence the same multiset; and
\* segmenting the output afresh gives these same clusters whenever the
\* segmenter places its boundaries at those cuts.
C4_ClustersReversed ==
  (pc = "done" /\ EntryValid) =>
    /\ CutMirrored = Rev(Clusters(entry))
    /\ BagOf(CutMirrored) = BagOf(Clusters(entry))
    /\ Graphemes(bytes) = Mirrored(entry) =>
         /\ Clusters(bytes) = Rev(Clusters(entry))
         /\ BagOf(Clusters(bytes)) = BagOf(Clusters(entry))

\* A call has returned whose output segments where its input's clusters lie,
\* with a cluster ("a") that occurs three times.
C4_Witness ==
  /\ pc = "done"
  /\ entry = Manana
  /\ BagOf(Clusters(bytes))[<<97>>] = 3
  /\ Graphemes(bytes) = Mirrored(entry)
  /\ Clusters(bytes) = Rev(Clusters(entry))

C5Inv ==
  EntryValid =>
    /\ pc \notin {"panicked", "ub"}
    /\ pc = "part1" => Sum(lens) = pos /\ pos <= Len(bytes)
    /\ (pc = "part1" /\ pos < Len(bytes)) =>
         LET g == NextGrapheme(TailOf(bytes, pos))
         IN g.some /\ ~g.short /\ g.len >= 1 /\ g.len <= Len(bytes) - pos
    /\ pc \in {"part2", "done"} =>
         /\ pos = Len(bytes)
         /\ Sum(lens) = Len(bytes)
         /\ \A k \in 1..Len(lens) : lens[k] >= 1

C5Shrinks ==
  (pc = "part1" /\ pc' = "part1" /\ EntryValid) =>
    Len(TailOf(bytes', pos')) < Len(TailOf(bytes, pos))

\* C5: a call on a valid buffer of length L neither panics nor fails: at
\* every non-empty tail the segmenter yields a len between 1 and the length
\* of the tail, each iteration shortens the tail, the loop is left with the
\* lens summing to L, and the call returns.
C5_TotalAndTerminates ==
  /\ []C5Inv
  /\ [][C5Shrinks]_vars
  /\ (pc = "part1" /\ EntryValid) ~> (pc = "done")

\* A call that took four iterations, one of them over a cluster of eight
\* bytes, has returned.
C5_Witness ==
  /\ pc = "done"
  /\ entry = Flags
  /\ lens = <<1, 8, 8, 4>>

\* Every index the latest step read or wrote is inside the buffer, and the
\* latest split was at most the length of the tail it split.
InBounds ==
  /\ touched \subseteq 0..(Len(bytes) - 1)
  /\ split.mid <= split.of

C7_EmptyIdentity ==
  entry = <<>> =>
    /\ lens = <<>>
    /\ pos = 0
    /\ touched = {}
    /\ bytes = <<>>
    /\ pc \in {"part1", "part2", "done"}

\* test_empty has returned.
C7_Witness ==
  /\ pc = "done"
  /\ entry = <<>>
  /\ bytes = <<>>
  /\ calls = 1

\* The first k clusters of the input, each with its bytes reversed.
ReversedClusters(s, k) ==
  LET cl == Clusters(s) IN Concat([i \in 1..k |-> Rev(cl[i])])

C8Inv ==
  (EntryValid /\ pc \in {"part1", "part2"}) =>
    /\ TailOf(bytes, pos) = TailOf(entry, pos)
    /\ FromUtf8IsOk(TailOf(bytes, pos))
    /\ SubSeq(bytes, 1, pos) = ReversedClusters(entry, Len(lens))
    /\ pc = "part2" =>
         /\ Len(lens) = Len(Graphemes(entry))
         /\ bytes = ReversedClusters(entry, Len(lens))

C8Frame ==
  (EntryValid /\ pc = "part1" /\ pc' = "part1") =>
    /\ \A i \in 1..Len(bytes) :
         (i <= pos \/ i > pos') => bytes'[i] = bytes[i]
    /\ SubSeq(bytes', pos + 1, pos') = Rev(SubSeq(bytes, pos + 1, pos'))

\* C8: an iteration of the Part 1 loop changes only the bytes of its cluster,
\* which it reverses; so the tail is always the unmodified, valid suffix of
\* the input, the bytes before it are the clusters so far with their bytes
\* reversed, and Part 2 starts on the input with every cluster reversed.
C8_Part1Frame == []C8Inv /\ [][C8Frame]_vars

\* Part 1 is over for "man\u{0303}ana": only the cluster of three bytes
\* differs from the input.
C8_Witness ==
  /\ pc = "part2"
  /\ entry = Manana
  /\ bytes = <<109, 97, 131, 204, 110, 97, 110, 97>>

\* C9: on a valid buffer that is one cluster, Part 1 reverses all the bytes
\* and the buffer on return equals the buffer on entry.
C9_SingleClusterIdentity ==
  (EntryValid /\ Len(Graphemes(entry)) = 1) =>
    /\ pc = "part2" => bytes = Rev(entry)
    /\ pc = "done" => bytes = entry

\* A call on the single cluster U+0600 'a' U+0303 has returned.
C9_Witness ==
  /\ pc = "done"
  /\ entry = StrBytes(<<1536, 97, 771>>)
  /\ Len(Graphemes(entry)) = 1
  /\ bytes = entry

\* C10: the lens obtained by starting a segmenter afresh on each tail are
\* the cluster lengths of one segmentation of the whole valid buffer.
C10_RestartEquivalence ==
  EntryValid =>
    /\ pc = "part1" =>
         /\ Len(lens) <= Len(Lengths(entry))
         /\ lens = SubSeq(Lengths(entry), 1, Len(lens))
    /\ pc \in {"part2", "done"} => lens = Lengths(entry)

\* Part 1 is over for a buffer with an odd run of regional indicators.
C10_Witness ==
  /\ pc = "part2"
  /\ entry = StrBytes(<<127462, 127463, 127462>>)
  /\ lens = <<8, 4>>

====
